---- MODULE Spec2Model ----
(***************************************************************************)
(* A model of src/src/components/AddTransactionModal.jsx: the modal's      *)
(* React state, its event handlers, and the JavaScript Date and String     *)
(* operations the handlers are built from.                                 *)
(*                                                                         *)
(* Strings are sequences of one-character strings, so that formatting,     *)
(* splitting, padding and parsing are computed and not assumed.  A Date    *)
(* is its time value: a whole number of hours since the epoch (UTC), or    *)
(* NaN for an Invalid Date.  The local time zone is a fixed offset tz (in  *)
(* hours) from UTC.                                                        *)
(***************************************************************************)
EXTENDS Integers, Sequences, FiniteSets

(***************************************************************************)
(* Bounds of the model.                                                    *)
(***************************************************************************)
\* the calendar is navigated within this many months before and after the current month
NavMonths == 2
\* the calendar functions are applied to the years this far around 2024 (and to
\* the century years 1900, 2000 and 2100)
YearSpan == 2
\* the calendar functions are applied to the months 0..MaxMonth and the days 0..MaxDay
MaxMonth == 13
MaxDay == 32
\* the user closes the modal while fewer than this many 300 ms close timers are pending
MaxCloseTimers == 1
\* the longest list of existing transactions the category list is built from
MaxTransactions == 3
\* the longest text typed or pasted into the amount field
MaxAmountLen == 4

(***************************************************************************)
(* Strings.                                                                *)
(***************************************************************************)
\* the characters the model uses, in increasing UTF-16 code unit order
CodeUnitOrder ==
  << " ", "-", ".", "/", "0", "1", "2", "3", "4", "5", "6", "7", "8", "9", ":",
     "A", "E", "F", "G", "H", "I", "N", "O", "R", "S", "T", "U", "Z",
     "a", "c", "d", "e", "f", "g", "h", "i", "l", "m", "n", "o", "p", "r", "s",
     "t", "u", "v", "x", "y" >>

CharCode(c) == CHOOSE i \in 1..Len(CodeUnitOrder) : CodeUnitOrder[i] = c

Digits == << "0", "1", "2", "3", "4", "5", "6", "7", "8", "9" >>

IsDigit(c) == \E i \in 1..Len(Digits) : Digits[i] = c

DigitVal(c) == (CHOOSE i \in 1..Len(Digits) : Digits[i] = c) - 1

\* A JavaScript number the handlers compute with: an integer, or NaN
Num(v) == [nan |-> FALSE, v |-> v]

NaN == [nan |-> TRUE, v |-> 0]

IsNaN(x) == x.nan

NaNString == << "N", "a", "N" >>

\* String(n) for a number n
RECURSIVE NatToString(_)
NatToString(n) ==
  IF n < 10 THEN << Digits[n + 1] >>
  ELSE NatToString(n \div 10) \o << Digits[(n % 10) + 1] >>

StringOf(n) ==
  IF IsNaN(n) THEN NaNString
  ELSE IF n.v < 0 THEN << "-" >> \o NatToString(0 - n.v)
  ELSE NatToString(n.v)

\* s.padStart(targetLength, padChar)
RECURSIVE PadStart(_, _, _)
PadStart(s, targetLength, padChar) ==
  IF Len(s) >= targetLength THEN s
  ELSE PadStart(<< padChar >> \o s, targetLength, padChar)

\* s.split(sep) for a one-character separator: the list of the pieces
RECURSIVE SplitFrom(_, _, _, _)
SplitFrom(s, sep, i, piece) ==
  IF i > Len(s) THEN << piece >>
  ELSE IF s[i] = sep THEN << piece >> \o SplitFrom(s, sep, i + 1, << >>)
  ELSE SplitFrom(s, sep, i + 1, Append(piece, s[i]))

Split(s, sep) == SplitFrom(s, sep, 1, << >>)

\* the value of a string of digits (the empty string: 0)
RECURSIVE DigitsValue(_)
DigitsValue(s) ==
  IF s = << >> THEN 0
  ELSE 10 * DigitsValue(SubSeq(s, 1, Len(s) - 1)) + DigitVal(s[Len(s)])

\* the longest prefix of s made of digits
RECURSIVE DigitPrefix(_)
DigitPrefix(s) ==
  IF s = << >> \/ ~IsDigit(s[1]) THEN << >>
  ELSE << s[1] >> \o DigitPrefix(Tail(s))

AllDigits(s) == \A i \in 1..Len(s) : IsDigit(s[i])

\* parseInt(s) of a string without sign or leading white space
ParseInt(s) ==
  IF DigitPrefix(s) = << >> THEN NaN ELSE Num(DigitsValue(DigitPrefix(s)))

\* ToNumber(s) of a string of digits, as the Date constructor applies to its arguments
ToNumber(s) ==
  IF AllDigits(s) THEN Num(DigitsValue(s)) ELSE NaN

IsWhiteSpace(c) == c = " "

\* s.trim()
RECURSIVE TrimStart(_)
TrimStart(s) ==
  IF s # << >> /\ IsWhiteSpace(s[1]) THEN TrimStart(Tail(s)) ELSE s

RECURSIVE TrimEnd(_)
TrimEnd(s) ==
  IF s # << >> /\ IsWhiteSpace(s[Len(s)]) THEN TrimEnd(SubSeq(s, 1, Len(s) - 1)) ELSE s

Trim(s) == TrimEnd(TrimStart(s))

\* a < b in the order of String.prototype comparison (by code unit, then by length)
RECURSIVE StringLess(_, _)
StringLess(a, b) ==
  IF b = << >> THEN FALSE
  ELSE IF a = << >> THEN TRUE
  ELSE IF a[1] = b[1] THEN StringLess(Tail(a), Tail(b))
  ELSE CharCode(a[1]) < CharCode(b[1])

(***************************************************************************)
(* ECMAScript time values, in hours.                                       *)
(***************************************************************************)
HoursPerDay == 24

Day(t) == t \div HoursPerDay

TimeWithinDay(t) == t % HoursPerDay

DaysInYear(y) ==
  IF y % 4 # 0 THEN 365
  ELSE IF y % 100 # 0 THEN 366
  ELSE IF y % 400 # 0 THEN 365
  ELSE 366

DayFromYear(y) ==
  365 * (y - 1970) + ((y - 1969) \div 4) - ((y - 1901) \div 100) + ((y - 1601) \div 400)

YearFromDay(d) ==
  CHOOSE y \in (1970 + (d \div 366) - 1)..(1970 + (d \div 365) + 1) :
    DayFromYear(y) <= d /\ d < DayFromYear(y + 1)

YearFromTime(t) == YearFromDay(Day(t))

InLeapYear(t) == IF DaysInYear(YearFromTime(t)) = 366 THEN 1 ELSE 0

DayWithinYear(t) == Day(t) - DayFromYear(YearFromTime(t))

\* the day within the year on which month m (0 = January) starts; m = 12 is the year's end
MonthStart(m, leap) ==
  IF m = 0 THEN 0
  ELSE IF m = 1 THEN 31
  ELSE << 59, 90, 120, 151, 181, 212, 243, 273, 304, 334, 365 >>[m - 1] + leap

MonthFromTime(t) ==
  CHOOSE m \in 0..11 :
    /\ MonthStart(m, InLeapYear(t)) <= DayWithinYear(t)
    /\ DayWithinYear(t) < MonthStart(m + 1, InLeapYear(t))

DateFromTime(t) ==
  DayWithinYear(t) - MonthStart(MonthFromTime(t), InLeapYear(t)) + 1

WeekDay(t) == (Day(t) + 4) % 7

\* MakeDay(year, month, date): month is 0-based and may lie outside 0..11
MakeDay(year, month, date) ==
  LET ym == year + (month \div 12)
      mn == month % 12
      leap == IF DaysInYear(ym) = 366 THEN 1 ELSE 0
  IN  DayFromYear(ym) + MonthStart(mn, leap) + date - 1

MakeDate(day, time) == day * HoursPerDay + time

(***************************************************************************)
(* The state.                                                              *)
(***************************************************************************)
VARIABLES
  env,                      \* the runtime: time zone offset, Date.parse's leniency, the clock
  form,                     \* useState: amount, category, type, date, note
  isVisible,                \* useState
  isSubmitting,             \* useState
  errors,                   \* useState: the errors map
  showCategoryDropdown,     \* useState
  showCustomCategoryInput,  \* useState
  customCategory,           \* useState
  showDatePicker,           \* useState
  showModal,                \* the prop the parent owns
  transactions,             \* the store's list of existing transactions
  pending,                  \* the handleSubmit calls waiting in their 800 ms delay
  closeTimers,              \* the pending 300 ms timers of handleClose
  last,                     \* the handler that ran last: what it was given, the calls it made
  arg,                      \* the input a function is applied to
  res                       \* and its result

vars ==
  << env, form, isVisible, isSubmitting, errors, showCategoryDropdown,
     showCustomCategoryInput, customCategory, showDatePicker, showModal,
     transactions, pending, closeTimers, last, arg, res >>

(***************************************************************************)
(* Date objects: a time value in UTC, or Invalid Date.                     *)
(***************************************************************************)
ValidDate(t) == [valid |-> TRUE, time |-> t]

InvalidDate == [valid |-> FALSE, time |-> 0]

LocalTime(t) == t + env.tz

UTC(t) == t - env.tz

\* new Date(): the current time
NewDateNow == ValidDate(env.now)

GetDate(d) == IF d.valid THEN Num(DateFromTime(LocalTime(d.time))) ELSE NaN

GetMonth(d) == IF d.valid THEN Num(MonthFromTime(LocalTime(d.time))) ELSE NaN

GetFullYear(d) == IF d.valid THEN Num(YearFromTime(LocalTime(d.time))) ELSE NaN

GetDay(d) == IF d.valid THEN Num(WeekDay(LocalTime(d.time))) ELSE NaN

\* d.setMonth(month): the date d becomes
SetMonth(d, month) ==
  IF ~d.valid \/ IsNaN(month) THEN InvalidDate
  ELSE LET t == LocalTime(d.time)
           newDate == MakeDate(MakeDay(YearFromTime(t), month.v, DateFromTime(t)),
                               TimeWithinDay(t))
       IN  ValidDate(UTC(newDate))

\* new Date(year, month, date): local time; a year in 0..99 means 1900 + year
NewDateFromFields(year, month, date) ==
  IF IsNaN(year) \/ IsNaN(month) \/ IsNaN(date) THEN InvalidDate
  ELSE LET yr == IF 0 <= year.v /\ year.v <= 99 THEN 1900 + year.v ELSE year.v
       IN  ValidDate(UTC(MakeDate(MakeDay(yr, month.v, date.v), 0)))

\* new Date(string) for the date-only form YYYY-MM-DD, which is UTC midnight.  A
\* day past the month's end but at most 31 is rejected by a strict parser and
\* rolled over into the next month by a lenient one (env.lenient).
DateParse(s) ==
  LET p == Split(s, "-")
      wellFormed ==
        /\ Len(p) = 3
        /\ Len(p[1]) = 4 /\ Len(p[2]) = 2 /\ Len(p[3]) = 2
        /\ AllDigits(p[1]) /\ AllDigits(p[2]) /\ AllDigits(p[3])
      y == DigitsValue(p[1])
      m == DigitsValue(p[2])
      dt == DigitsValue(p[3])
      monthLength == MakeDay(y, m, 1) - MakeDay(y, m - 1, 1)
  IN  IF ~wellFormed THEN InvalidDate
      ELSE IF m < 1 \/ m > 12 \/ dt < 1 \/ dt > 31 THEN InvalidDate
      ELSE IF dt > monthLength /\ ~env.lenient THEN InvalidDate
      ELSE ValidDate(MakeDate(MakeDay(y, m - 1, dt), 0))

\* d.toISOString() of a valid date in the years 0..9999, to the hour
ToISOString(d) ==
  LET t == d.time
  IN  PadStart(NatToString(YearFromTime(t)), 4, "0") \o << "-" >>
      \o PadStart(NatToString(MonthFromTime(t) + 1), 2, "0") \o << "-" >>
      \o PadStart(NatToString(DateFromTime(t)), 2, "0") \o << "T" >>
      \o PadStart(NatToString(TimeWithinDay(t)), 2, "0")
      \o << ":", "0", "0", ":", "0", "0", ".", "0", "0", "0", "Z" >>

\* n + k for a number n
NumPlus(n, k) == IF IsNaN(n) THEN NaN ELSE Num(n.v + k)

(***************************************************************************)
(* formatDate, and the date picker.                                        *)
(***************************************************************************)
\* formatDate(date), after its new Date(date) has made the Date d
FormatDate(d) ==
  LET day == PadStart(StringOf(GetDate(d)), 2, "0")
      month == PadStart(StringOf(NumPlus(GetMonth(d), 1)), 2, "0")
      year == StringOf(GetFullYear(d))
  IN  day \o << "/" >> \o month \o << "/" >> \o year

\* `${yyyy}-${mm}-${dd}`
IsoOf(yyyy, mm, dd) == yyyy \o << "-" >> \o mm \o << "-" >> \o dd

\* const [dd, mm, yyyy] = form.date.split('/')
DateParts(date) ==
  LET p == Split(date, "/")
  IN  [dd |-> p[1], mm |-> p[2], yyyy |-> p[3]]

\* const currentDate = new Date(`${yyyy}-${mm}-${dd}`)
CurrentDate(date) ==
  LET p == DateParts(date) IN DateParse(IsoOf(p.yyyy, p.mm, p.dd))

\* a slip: new Date(yyyy, mm - 1, 0), the last day of the month before
DaysInMonthOfMonthBefore(yyyy, mm) ==
  GetDate(NewDateFromFields(ToNumber(yyyy), NumPlus(ToNumber(mm), -1), Num(0)))

\* const daysInMonth = new Date(yyyy, mm, 0).getDate()
DaysInMonth(yyyy, mm) ==
  GetDate(NewDateFromFields(ToNumber(yyyy), ToNumber(mm), Num(0)))

\* const firstDayOfMonth = new Date(yyyy, mm - 1, 1).getDay()
FirstDayOfMonth(yyyy, mm) ==
  GetDay(NewDateFromFields(ToNumber(yyyy), NumPlus(ToNumber(mm), -1), Num(1)))

EmptyCell(i) == [kind |-> "empty", day |-> i, isSelected |-> FALSE, onClick |-> << >>]

\* a slip: the selected day compared with the month
DayCellSelectedByMonth(i, yyyy, mm, dd) ==
  [kind |-> "day", day |-> i,
   isSelected |-> Num(i) = ParseInt(mm),
   onClick |-> IsoOf(yyyy, mm, PadStart(NatToString(i), 2, "0"))]

DayCell(i, yyyy, mm, dd) ==
  [kind |-> "day", day |-> i,
   isSelected |-> Num(i) = ParseInt(dd),
   onClick |-> IsoOf(yyyy, mm, PadStart(NatToString(i), 2, "0"))]

\* a slip: the first loop running to i <= firstDayOfMonth
DaysOneMoreEmpty(yyyy, mm, dd) ==
  LET first == FirstDayOfMonth(yyyy, mm)
      count == DaysInMonth(yyyy, mm)
      empties == IF IsNaN(first) THEN << >>
                 ELSE [k \in 1..(first.v + 1) |-> EmptyCell(k - 1)]
      buttons == IF IsNaN(count) THEN << >>
                 ELSE [k \in 1..count.v |-> DayCell(k, yyyy, mm, dd)]
  IN  empties \o buttons

\* the days array: the two loops of renderDatePicker (a loop bounded by NaN does not run)
Days(yyyy, mm, dd) ==
  LET first == FirstDayOfMonth(yyyy, mm)
      count == DaysInMonth(yyyy, mm)
      empties == IF IsNaN(first) THEN << >>
                 ELSE [k \in 1..first.v |-> EmptyCell(k - 1)]
      buttons == IF IsNaN(count) THEN << >>
                 ELSE [k \in 1..count.v |-> DayCell(k, yyyy, mm, dd)]
  IN  empties \o buttons

(***************************************************************************)
(* The handlers of the date picker.                                        *)
(***************************************************************************)
\* what `last` records: the handler, the month and year the picker showed, the day clicked
Ran(op, date, day) ==
  [op |-> op, mm |-> DateParts(date).mm, yyyy |-> DateParts(date).yyyy, day |-> day]

RanOther(op) == [op |-> op, mm |-> << >>, yyyy |-> << >>, day |-> 0]

\* the modal takes clicks: it is rendered, and not faded out (pointer-events-none)
Clickable == showModal /\ isVisible

\* the months the navigation is followed through, counted from the clock's month
InNavWindow(date) ==
  LET y == ToNumber(DateParts(date).yyyy)
      m == ToNumber(DateParts(date).mm)
      here == 12 * YearFromTime(env.now) + MonthFromTime(env.now) + 1
  IN  /\ ~IsNaN(y) /\ ~IsNaN(m)
      /\ 12 * y.v + m.v \in (here - NavMonths)..(here + NavMonths)

\* handleDateChange(dateString): the new form.date
HandleDateChange(dateString) == FormatDate(DateParse(dateString))

\* date.toISOString().split('T')[0]
IsoDay(d) == Split(ToISOString(d), "T")[1]

\* the month buttons: new Date(currentDate), setMonth(getMonth() + delta), toISOString()
ShiftedMonth(date, delta) ==
  LET currentDate == CurrentDate(date)
  IN  SetMonth(currentDate, NumPlus(GetMonth(currentDate), delta))

\* onClick of the button "Date": setShowDatePicker(!showDatePicker)
ToggleDatePicker ==
  /\ Clickable
  /\ showDatePicker' = ~showDatePicker
  /\ last' = RanOther("other")
  /\ UNCHANGED << env, form, isVisible, isSubmitting, errors, showCategoryDropdown,
                  showCustomCategoryInput, customCategory, showModal, transactions,
                  pending, closeTimers, arg, res >>

\* what every handler of the picker ends with: handleDateChange(dateString)
DateChanged(op, dateString, day) ==
  /\ InNavWindow(HandleDateChange(dateString))
  /\ form' = [form EXCEPT !.date = HandleDateChange(dateString)]
  /\ showDatePicker' = FALSE
  /\ last' = Ran(op, form.date, day)
  /\ UNCHANGED << env, isVisible, isSubmitting, errors, showCategoryDropdown,
                  showCustomCategoryInput, customCategory, showModal, transactions,
                  pending, closeTimers, arg, res >>

\* onClick of a day button of the grid
DayClick ==
  /\ Clickable /\ showDatePicker
  /\ LET p == DateParts(form.date)
         count == DaysInMonth(p.yyyy, p.mm)
     IN  /\ ~IsNaN(count)
         /\ \E i \in 1..count.v :
               DateChanged("day", DayCell(i, p.yyyy, p.mm, p.dd).onClick, i)

\* onClick of the previous-month button (toISOString throws on an Invalid Date)
PrevMonth ==
  /\ Clickable /\ showDatePicker
  /\ ShiftedMonth(form.date, -1).valid
  /\ DateChanged("prev", IsoDay(ShiftedMonth(form.date, -1)), 0)

\* onClick of the next-month button
NextMonth ==
  /\ Clickable /\ showDatePicker
  /\ ShiftedMonth(form.date, 1).valid
  /\ DateChanged("next", IsoDay(ShiftedMonth(form.date, 1)), 0)

\* onClick of the button "Today"
Today ==
  /\ Clickable /\ showDatePicker
  /\ DateChanged("today", IsoDay(NewDateNow), 0)

\* handleClickOutside: a mousedown inside the category field, inside the date
\* field, or outside both
MouseDown ==
  /\ Clickable
  /\ \E where \in {"category", "date", "elsewhere"} :
       /\ IF where # "category"
            THEN showCategoryDropdown' = FALSE /\ showCustomCategoryInput' = FALSE
            ELSE UNCHANGED << showCategoryDropdown, showCustomCategoryInput >>
       /\ IF where # "date"
            THEN showDatePicker' = FALSE
            ELSE UNCHANGED showDatePicker
  /\ last' = RanOther("other")
  /\ UNCHANGED << env, form, isVisible, isSubmitting, errors, customCategory,
                  showModal, transactions, pending, closeTimers, arg, res >>

(***************************************************************************)
(* The category list.                                                      *)
(***************************************************************************)
defaultCategories ==
  << << "F", "o", "o", "d" >>,
     << "E", "n", "t", "e", "r", "t", "a", "i", "n", "m", "e", "n", "t" >>,
     << "U", "t", "i", "l", "i", "t", "i", "e", "s" >>,
     << "T", "r", "a", "n", "s", "p", "o", "r", "t" >>,
     << "S", "h", "o", "p", "p", "i", "n", "g" >>,
     << "H", "e", "a", "l", "t", "h" >>,
     << "E", "d", "u", "c", "a", "t", "i", "o", "n" >>,
     << "S", "a", "l", "a", "r", "y" >>,
     << "G", "i", "f", "t" >>,
     << "I", "n", "v", "e", "s", "t", "m", "e", "n", "t" >> >>

\* list.includes(x)
Includes(list, x) == \E i \in 1..Len(list) : list[i] = x

\* [...new Set(list)]: the first occurrence of every value, in order
RECURSIVE Unique(_)
Unique(list) ==
  IF list = << >> THEN << >>
  ELSE LET front == Unique(SubSeq(list, 1, Len(list) - 1))
           x == list[Len(list)]
       IN  IF Includes(front, x) THEN front ELSE Append(front, x)

\* list.filter(c => !other.includes(c))
RECURSIVE FilterNotIn(_, _)
FilterNotIn(list, other) ==
  IF list = << >> THEN << >>
  ELSE IF Includes(other, list[1]) THEN FilterNotIn(Tail(list), other)
  ELSE << list[1] >> \o FilterNotIn(Tail(list), other)

\* x put into a sorted list, after the elements that are not greater (the sort is stable)
RECURSIVE Insert(_, _)
Insert(sorted, x) ==
  IF sorted = << >> THEN << x >>
  ELSE IF StringLess(x, sorted[1]) THEN << x >> \o sorted
  ELSE << sorted[1] >> \o Insert(Tail(sorted), x)

\* list.sort(): strings in increasing code unit order
RECURSIVE Sort(_)
Sort(list) ==
  IF list = << >> THEN << >>
  ELSE Insert(Sort(SubSeq(list, 1, Len(list) - 1)), list[Len(list)])

\* transactions.map(t => t.category)
CategoriesOf(txs) == [i \in 1..Len(txs) |-> txs[i].category]

\* a slip: the list left in the order it was merged in
CategoriesUnsorted(txs) ==
  LET existingCategories == Unique(CategoriesOf(txs))
      allCategories == defaultCategories \o FilterNotIn(existingCategories, defaultCategories)
  IN  Unique(allCategories)

\* existingCategories, allCategories, categories
Categories(txs) ==
  LET existingCategories == Unique(CategoriesOf(txs))
      allCategories == defaultCategories \o FilterNotIn(existingCategories, defaultCategories)
  IN  Sort(Unique(allCategories))

(***************************************************************************)
(* The amount.                                                             *)
(***************************************************************************)
\* value.replace(/[^0-9.]/g, '')
RECURSIVE KeepDigitsAndDots(_)
KeepDigitsAndDots(s) ==
  IF s = << >> THEN << >>
  ELSE IF IsDigit(s[1]) \/ s[1] = "." THEN << s[1] >> \o KeepDigitsAndDots(Tail(s))
  ELSE KeepDigitsAndDots(Tail(s))

\* s.replace(/^\./, '')
DropLeadingDot(s) == IF s # << >> /\ s[1] = "." THEN Tail(s) ELSE s

DotPositions(s) == { i \in 1..Len(s) : s[i] = "." }

Least(S) == CHOOSE i \in S : \A j \in S : i <= j

Greatest(S) == CHOOSE i \in S : \A j \in S : j <= i

\* s.replace(/(\..*)\./g, '$1'): the greedy match runs from the first dot to the
\* last one, which is dropped; nothing after it can match again
DropLastOfManyDots(s) ==
  LET dots == DotPositions(s)
  IN  IF dots = {} \/ Least(dots) = Greatest(dots) THEN s
      ELSE SubSeq(s, 1, Greatest(dots) - 1) \o SubSeq(s, Greatest(dots) + 1, Len(s))

\* sanitizedValue
Sanitize(value) == DropLastOfManyDots(DropLeadingDot(KeepDigitsAndDots(value)))

\* s with its trailing zeros removed
RECURSIVE StripTrailingZeros(_)
StripTrailingZeros(s) ==
  IF s # << >> /\ s[Len(s)] = "0" THEN StripTrailingZeros(SubSeq(s, 1, Len(s) - 1)) ELSE s

\* parseFloat(s) of a string without sign, exponent or leading white space: the
\* longest prefix that is a decimal literal, as its whole part and its
\* fraction digits; NaN when there is no such prefix
ParseFloat(s) ==
  LET whole == DigitPrefix(s)
      rest == SubSeq(s, Len(whole) + 1, Len(s))
      fraction == IF rest # << >> /\ rest[1] = "." THEN DigitPrefix(Tail(rest)) ELSE << >>
  IN  IF whole = << >> /\ fraction = << >>
        THEN [nan |-> TRUE, whole |-> 0, fraction |-> << >>]
        ELSE [nan |-> FALSE, whole |-> DigitsValue(whole),
              fraction |-> StripTrailingZeros(fraction)]

\* x <= 0 for a parseFloat result (a comparison with NaN is false)
NotPositive(x) == ~x.nan /\ x.whole = 0 /\ x.fraction = << >>

(***************************************************************************)
(* The errors map: a function from the keys it has to their messages.      *)
(***************************************************************************)
NoErrors == [k \in {} |-> ""]

\* { ...map, [key]: message }
WithKey(map, key, message) ==
  [k \in (DOMAIN map) \cup {key} |-> IF k = key THEN message ELSE map[k]]

\* map[key] is truthy
HasError(map, key) == key \in DOMAIN map /\ map[key] # ""

AmountMessage == "Please enter a valid amount"

CategoryMessage == "Category is required"

\* newErrors of validateForm
NewErrors(f) ==
  LET amountErrors ==
        IF f.amount = << >> \/ NotPositive(ParseFloat(f.amount))
          THEN WithKey(NoErrors, "amount", AmountMessage) ELSE NoErrors
  IN  IF Trim(f.category) = << >>
        THEN WithKey(amountErrors, "category", CategoryMessage) ELSE amountErrors

\* the form after a reset
DefaultForm ==
  [amount |-> << >>, category |-> << >>, type |-> "Expense",
   date |-> FormatDate(NewDateNow), note |-> << >>]

\* the record handleSubmit passes to addTransaction, from the form f it holds
RecordOf(f) ==
  [amount |-> ParseFloat(f.amount), category |-> f.category, type |-> f.type,
   date |-> f.date, note |-> f.note, id |-> env.now]

(***************************************************************************)
(* The runtime, and the state after the first render.                      *)
(***************************************************************************)
\* the time zones: New York (winter), UTC, Karachi
TimeZones == {-5, 0, 5}

\* the clock: 31 January 2024, 03:00 UTC
Instants == { MakeDate(MakeDay(2024, 0, 31), 3) }

Envs == [tz : TimeZones, lenient : BOOLEAN, now : Instants]

NoArg == [fn |-> "none"]

NoRes == [fn |-> "none"]

\* the useState initial values; the modal is shown
InitModal ==
  /\ form = DefaultForm
  /\ isVisible = TRUE
  /\ isSubmitting = FALSE
  /\ errors = NoErrors
  /\ showCategoryDropdown = FALSE
  /\ showCustomCategoryInput = FALSE
  /\ customCategory = << >>
  /\ showDatePicker = FALSE
  /\ showModal = TRUE
  /\ pending = << >>
  /\ closeTimers = 0
  /\ last = RanOther("render")

InitCalendar ==
  /\ env \in Envs
  /\ transactions = << >>
  /\ InitModal
  /\ arg = NoArg
  /\ res = NoRes

NextCalendar ==
  \/ ToggleDatePicker
  \/ DayClick
  \/ PrevMonth
  \/ NextMonth
  \/ Today
  \/ MouseDown

\* the date picker alone
SpecCalendar == InitCalendar /\ [][NextCalendar]_vars

(***************************************************************************)
(* The handlers of the form.                                               *)
(***************************************************************************)
\* what the user types or pastes into the amount field
AmountInputs == { << "5" >>, << ".", "." >> }

\* what the user types into the custom category field
CustomCategoryInputs == { << " " >>, << "a" >> }

\* what the user types into the note field
NoteInputs == { << "n" >> }

Other == << "O", "t", "h", "e", "r" >>

\* the entry of the dropdown the user picks: the first one
OfferedCategories == { Categories(transactions)[1] }

\* handleAmountChange(value)
HandleAmountChange ==
  /\ Clickable
  /\ \E value \in AmountInputs :
       form' = [form EXCEPT !.amount = Sanitize(value)]
  /\ errors' = IF HasError(errors, "amount") THEN WithKey(errors, "amount", "") ELSE errors
  /\ last' = RanOther("other")
  /\ UNCHANGED << env, isVisible, isSubmitting, showCategoryDropdown,
                  showCustomCategoryInput, customCategory, showDatePicker, showModal,
                  transactions, pending, closeTimers, arg, res >>

\* onClick of the category button
ToggleCategoryDropdown ==
  /\ Clickable
  /\ showCategoryDropdown' = ~showCategoryDropdown
  /\ showCustomCategoryInput' = FALSE
  /\ last' = RanOther("other")
  /\ UNCHANGED << env, form, isVisible, isSubmitting, errors, customCategory,
                  showDatePicker, showModal, transactions, pending, closeTimers,
                  arg, res >>

\* handleCategorySelect(category), from an entry of the dropdown or from "Other..."
HandleCategorySelect ==
  /\ Clickable /\ showCategoryDropdown /\ ~showCustomCategoryInput
  /\ \E category \in OfferedCategories \cup {Other} :
       IF category = Other
         THEN /\ showCustomCategoryInput' = TRUE
              /\ form' = [form EXCEPT !.category = << >>]
              /\ customCategory' = << >>
              /\ UNCHANGED showCategoryDropdown
         ELSE /\ form' = [form EXCEPT !.category = category]
              /\ showCategoryDropdown' = FALSE
              /\ UNCHANGED << showCustomCategoryInput, customCategory >>
  /\ errors' = IF HasError(errors, "category") THEN WithKey(errors, "category", "")
               ELSE errors
  /\ last' = RanOther("other")
  /\ UNCHANGED << env, isVisible, isSubmitting, showDatePicker, showModal,
                  transactions, pending, closeTimers, arg, res >>

\* onChange of the custom category field: setCustomCategory(e.target.value)
SetCustomCategory ==
  /\ Clickable /\ showCustomCategoryInput
  /\ \E value \in CustomCategoryInputs : customCategory' = value
  /\ last' = RanOther("other")
  /\ UNCHANGED << env, form, isVisible, isSubmitting, errors, showCategoryDropdown,
                  showCustomCategoryInput, showDatePicker, showModal, transactions,
                  pending, closeTimers, arg, res >>

\* onClick of "Cancel" under the custom category field
CancelCustomCategory ==
  /\ Clickable /\ showCustomCategoryInput
  /\ showCustomCategoryInput' = FALSE
  /\ showCategoryDropdown' = TRUE
  /\ last' = RanOther("other")
  /\ UNCHANGED << env, form, isVisible, isSubmitting, errors, customCategory,
                  showDatePicker, showModal, transactions, pending, closeTimers,
                  arg, res >>

\* a slip: the custom category saved without the trim() test
HandleCustomCategorySaveUnchecked ==
  /\ Clickable /\ showCustomCategoryInput
  /\ form' = [form EXCEPT !.category = customCategory]
  /\ showCustomCategoryInput' = FALSE
  /\ showCategoryDropdown' = FALSE
  /\ last' = RanOther("customCategorySave")
  /\ UNCHANGED << env, isVisible, isSubmitting, errors, customCategory, showDatePicker,
                  showModal, transactions, pending, closeTimers, arg, res >>

\* handleCustomCategorySave: from "Save" (disabled while the text is blank) or
\* from the Enter key in the field (never disabled; the key's default action,
\* the submit of the form, is the step Submit)
HandleCustomCategorySave ==
  /\ Clickable /\ showCustomCategoryInput
  /\ IF Trim(customCategory) # << >>
       THEN /\ form' = [form EXCEPT !.category = customCategory]
            /\ showCustomCategoryInput' = FALSE
            /\ showCategoryDropdown' = FALSE
       ELSE UNCHANGED << form, showCustomCategoryInput, showCategoryDropdown >>
  /\ last' = RanOther("customCategorySave")
  /\ UNCHANGED << env, isVisible, isSubmitting, errors, customCategory, showDatePicker,
                  showModal, transactions, pending, closeTimers, arg, res >>

\* onClick of a type button: setForm({ ...form, type })
SetType ==
  /\ Clickable
  /\ \E type \in {"Income", "Expense"} : form' = [form EXCEPT !.type = type]
  /\ last' = RanOther("other")
  /\ UNCHANGED << env, isVisible, isSubmitting, errors, showCategoryDropdown,
                  showCustomCategoryInput, customCategory, showDatePicker, showModal,
                  transactions, pending, closeTimers, arg, res >>

\* onChange of the note field: setForm({ ...form, note: e.target.value })
SetNote ==
  /\ Clickable
  /\ \E value \in NoteInputs : form' = [form EXCEPT !.note = value]
  /\ last' = RanOther("other")
  /\ UNCHANGED << env, isVisible, isSubmitting, errors, showCategoryDropdown,
                  showCustomCategoryInput, customCategory, showDatePicker, showModal,
                  transactions, pending, closeTimers, arg, res >>

\* handleSubmit up to its await: the submit button is disabled while
\* isSubmitting; the call keeps the form of the render it was made in
Submit ==
  /\ Clickable /\ ~isSubmitting
  /\ errors' = NewErrors(form)
  /\ IF DOMAIN NewErrors(form) = {}
       THEN /\ isSubmitting' = TRUE
            /\ pending' = Append(pending, form)
       ELSE UNCHANGED << isSubmitting, pending >>
  /\ last' = [op |-> "submit", accepted |-> DOMAIN NewErrors(form) = {}, form |-> form,
              addTransaction |-> << >>]
  /\ UNCHANGED << env, form, isVisible, showCategoryDropdown, showCustomCategoryInput,
                  customCategory, showDatePicker, showModal, transactions,
                  closeTimers, arg, res >>

\* a slip: the record built from the form as it is after the delay
SubmitResumeCurrentForm ==
  /\ pending # << >>
  /\ form' = DefaultForm
  /\ errors' = NoErrors
  /\ isSubmitting' = FALSE
  /\ isVisible' = FALSE
  /\ closeTimers' = closeTimers + 1
  /\ pending' = Tail(pending)
  /\ last' = [op |-> "submitResume", captured |-> Head(pending),
              addTransaction |-> << RecordOf(form) >>, toast |-> << "success" >>]
  /\ UNCHANGED << env, showCategoryDropdown, showCustomCategoryInput, customCategory,
                  showDatePicker, showModal, transactions, arg, res >>

\* handleSubmit after its 800 ms delay: addTransaction, toast.success, the
\* resets, and handleClose
SubmitResume ==
  /\ pending # << >>
  /\ form' = DefaultForm
  /\ errors' = NoErrors
  /\ isSubmitting' = FALSE
  /\ isVisible' = FALSE
  /\ closeTimers' = closeTimers + 1
  /\ pending' = Tail(pending)
  /\ last' = [op |-> "submitResume", captured |-> Head(pending),
              addTransaction |-> << RecordOf(Head(pending)) >>, toast |-> << "success" >>]
  /\ UNCHANGED << env, showCategoryDropdown, showCustomCategoryInput, customCategory,
                  showDatePicker, showModal, transactions, arg, res >>

\* handleClose, from the backdrop, the X button or "Cancel"
HandleClose ==
  /\ Clickable
  /\ closeTimers < MaxCloseTimers
  /\ isVisible' = FALSE
  /\ closeTimers' = closeTimers + 1
  /\ last' = RanOther("other")
  /\ UNCHANGED << env, form, isSubmitting, errors, showCategoryDropdown,
                  showCustomCategoryInput, customCategory, showDatePicker, showModal,
                  transactions, pending, arg, res >>

\* the 300 ms timer of handleClose: setShowModal(false)
CloseTimer ==
  /\ closeTimers > 0
  /\ closeTimers' = closeTimers - 1
  /\ showModal' = FALSE
  /\ last' = RanOther("other")
  /\ UNCHANGED << env, form, isVisible, isSubmitting, errors, showCategoryDropdown,
                  showCustomCategoryInput, customCategory, showDatePicker,
                  transactions, pending, arg, res >>

\* the parent shows the modal again, and the effect on showModal sets isVisible
Reopen ==
  /\ ~showModal
  /\ showModal' = TRUE
  /\ isVisible' = TRUE
  /\ last' = RanOther("other")
  /\ UNCHANGED << env, form, isSubmitting, errors, showCategoryDropdown,
                  showCustomCategoryInput, customCategory, showDatePicker,
                  transactions, pending, closeTimers, arg, res >>

(***************************************************************************)
(* The calendar functions of renderDatePicker and handleDateChange,        *)
(* applied to a year, a month and a day written as formatDate writes them. *)
(***************************************************************************)
CalendarYears == {1900, 2000, 2100} \cup ((2024 - YearSpan)..(2024 + YearSpan))

CalendarArgs ==
  { [fn |-> "calendar", year |-> y, month |-> m, day |-> d,
     yyyy |-> NatToString(y),
     mm |-> PadStart(NatToString(m), 2, "0"),
     dd |-> PadStart(NatToString(d), 2, "0")] :
    y \in CalendarYears, m \in 0..MaxMonth, d \in 0..MaxDay }

\* the grid renderDatePicker builds for arg, and the date a click on a button
\* carrying arg's day would store; no statement of either can throw
ApplyCalendar ==
  /\ arg.fn = "calendar" /\ res.fn = "none"
  /\ res' = [fn |-> "calendar",
             daysInMonth |-> DaysInMonth(arg.yyyy, arg.mm),
             firstDayOfMonth |-> FirstDayOfMonth(arg.yyyy, arg.mm),
             days |-> Days(arg.yyyy, arg.mm, arg.dd),
             date |-> HandleDateChange(IsoOf(arg.yyyy, arg.mm, arg.dd)),
             error |-> "none"]
  /\ last' = RanOther("calendar")
  /\ UNCHANGED << env, form, isVisible, isSubmitting, errors, showCategoryDropdown,
                  showCustomCategoryInput, customCategory, showDatePicker, showModal,
                  transactions, pending, closeTimers, arg >>

InitPureCalendar ==
  /\ env \in Envs
  /\ transactions = << >>
  /\ InitModal
  /\ arg \in CalendarArgs
  /\ res = NoRes

NextPureCalendar == ApplyCalendar

InitForm ==
  /\ env \in { e \in Envs : e.tz = 0 /\ ~e.lenient }
  /\ transactions = << >>
  /\ InitModal
  /\ arg = NoArg
  /\ res = NoRes

\* every handler but those of the date picker, which write form.date and
\* showDatePicker only
NextForm ==
  \/ HandleAmountChange
  \/ ToggleCategoryDropdown
  \/ HandleCategorySelect
  \/ SetCustomCategory
  \/ CancelCustomCategory
  \/ HandleCustomCategorySave
  \/ SetType
  \/ SetNote
  \/ Submit
  \/ SubmitResume
  \/ HandleClose
  \/ CloseTimer
  \/ Reopen
  \/ MouseDown

SpecForm == InitForm /\ [][NextForm]_vars

\* a timer that is due fires
SpecFormFair == SpecForm /\ WF_vars(SubmitResume)

\* the whole modal
Init == InitCalendar

Next == NextForm \/ NextCalendar

Spec == Init /\ [][Next]_vars

\* the calendar functions as functions
SpecPureCalendar == InitPureCalendar /\ [][NextPureCalendar]_vars

(***************************************************************************)
(* The category list as a function of the transactions of the store.       *)
(***************************************************************************)
\* the categories the stored transactions carry: a default one, one that sorts
\* between two defaults, one in lower case, and the empty one
StoredCategories ==
  { << "F", "o", "o", "d" >>, << "G", "a", "s" >>, << "a" >>, << >> }

RECURSIVE SeqsUpTo(_, _)
SeqsUpTo(S, n) ==
  IF n = 0 THEN { << >> }
  ELSE LET shorter == SeqsUpTo(S, n - 1)
       IN  shorter \cup { Append(q, x) : q \in shorter, x \in S }

\* the lists of transactions useTransactions() may return
StoredTransactions ==
  SeqsUpTo({ [category |-> c] : c \in StoredCategories }, MaxTransactions)

\* the list the render computes for the dropdown
ApplyCategories ==
  /\ arg.fn = "categories" /\ res.fn = "none"
  /\ res' = [fn |-> "categories", categories |-> Categories(transactions)]
  /\ last' = RanOther("categories")
  /\ UNCHANGED << env, form, isVisible, isSubmitting, errors, showCategoryDropdown,
                  showCustomCategoryInput, customCategory, showDatePicker, showModal,
                  transactions, pending, closeTimers, arg >>

InitPureCategories ==
  /\ env \in { e \in Envs : e.tz = 0 /\ ~e.lenient }
  /\ transactions \in StoredTransactions
  /\ InitModal
  /\ arg = [fn |-> "categories"]
  /\ res = NoRes

NextPureCategories == ApplyCategories

\* the category list as a function
SpecPureCategories == InitPureCategories /\ [][NextPureCategories]_vars

(***************************************************************************)
(* handleAmountChange as a function of the text of the amount field.       *)
(***************************************************************************)
\* the characters of the text: two digits, the dot, and one the first replace drops
AmountChars == { "1", "2", ".", "x" }

\* e.target.value of the amount field
AmountTexts == SeqsUpTo(AmountChars, MaxAmountLen)

\* handleAmountChange(arg.value)
ApplyAmountChange ==
  /\ arg.fn = "amount" /\ res.fn = "none"
  /\ form' = [form EXCEPT !.amount = Sanitize(arg.value)]
  /\ errors' = IF HasError(errors, "amount") THEN WithKey(errors, "amount", "") ELSE errors
  /\ res' = [fn |-> "amount"]
  /\ last' = RanOther("amount")
  /\ UNCHANGED << env, isVisible, isSubmitting, showCategoryDropdown,
                  showCustomCategoryInput, customCategory, showDatePicker, showModal,
                  transactions, pending, closeTimers, arg >>

InitPureAmount ==
  /\ env \in { e \in Envs : e.tz = 0 /\ ~e.lenient }
  /\ transactions = << >>
  /\ InitModal
  /\ arg \in { [fn |-> "amount", value |-> v] : v \in AmountTexts }
  /\ res = NoRes

NextPureAmount == ApplyAmountChange

\* handleAmountChange as a function
SpecPureAmount == InitPureAmount /\ [][NextPureAmount]_vars

(***************************************************************************)
(* The calendar the specification describes, to state the claims with.     *)
(***************************************************************************)
\* shiftMonth(year, month, delta): month arithmetic modulo 12, carrying the year
ShiftMonthRef(year, month, delta) ==
  LET m0 == 12 * year + (month - 1) + delta
  IN  [year |-> m0 \div 12, month |-> (m0 % 12) + 1]

IsLeapYearRef(year) ==
  (year % 4 = 0 /\ year % 100 # 0) \/ year % 400 = 0

DaysInMonthRef(year, month) ==
  IF month = 2 THEN (IF IsLeapYearRef(year) THEN 29 ELSE 28)
  ELSE IF month \in {4, 6, 9, 11} THEN 30
  ELSE 31

\* the year and month a dd/mm/yyyy string names
YearMonthOf(date) ==
  [year |-> DigitsValue(DateParts(date).yyyy), month |-> DigitsValue(DateParts(date).mm)]

DayOf(date) == DigitsValue(DateParts(date).dd)

\* C1: the previous-month and next-month buttons move form.date to exactly the
\* month before and the month after the one shown, carrying the year, for every
\* selected day and in every time zone.
C1_MonthNavigationExact ==
  /\ last.op = "prev" =>
       YearMonthOf(form.date)
         = ShiftMonthRef(DigitsValue(last.yyyy), DigitsValue(last.mm), -1)
  /\ last.op = "next" =>
       YearMonthOf(form.date)
         = ShiftMonthRef(DigitsValue(last.yyyy), DigitsValue(last.mm), 1)

\* C2: a click on day d of the grid shown for (year, month) makes form.date the
\* string dd/mm/yyyy of that day, month and year, whatever the time zone.
C2_DayClickResolves ==
  last.op = "day" =>
    form.date = PadStart(NatToString(last.day), 2, "0") \o << "/" >> \o last.mm
                  \o << "/" >> \o last.yyyy

\* the weekday (0 = Sunday) of the first of the month
FirstWeekdayRef(year, month) ==
  LET y == IF month < 3 THEN year - 1 ELSE year
      t == << 0, 3, 2, 5, 0, 3, 5, 1, 4, 6, 2, 4 >>
  IN  (y + (y \div 4) - (y \div 100) + (y \div 400) + t[month] + 1) % 7

ValidMonthArg == arg.month \in 1..12

ValidDateArg == ValidMonthArg /\ arg.day \in 1..DaysInMonthRef(arg.year, arg.month)

\* C3: daysInMonth is the Gregorian length of the month, for every year and
\* every month in 1..12 (February has 29 days exactly in the years divisible by
\* 4 and not by 100, or divisible by 400).
C3_DaysInMonthGregorian ==
  (res.fn = "calendar" /\ ValidMonthArg) =>
    res.daysInMonth = Num(DaysInMonthRef(arg.year, arg.month))

C3_Witness ==
  /\ res.fn = "calendar" /\ arg.year = 1900 /\ arg.month = 2
  /\ res.daysInMonth = Num(28)

\* C4: for every valid (year, month) the grid is firstWeekdayOfMonth empty
\* cells (0 = Sunday, in 0..6) followed by the day cells 1..daysInMonth in
\* increasing order, and nothing else.
C4_GridShape ==
  (res.fn = "calendar" /\ ValidMonthArg) =>
    LET first == FirstWeekdayRef(arg.year, arg.month)
        count == DaysInMonthRef(arg.year, arg.month)
    IN  /\ first \in 0..6
        /\ Len(res.days) = first + count
        /\ \A k \in 1..first : res.days[k].kind = "empty"
        /\ \A i \in 1..count :
             res.days[first + i].kind = "day" /\ res.days[first + i].day = i

C4_Witness ==
  /\ res.fn = "calendar" /\ arg.year = 2024 /\ arg.month = 2
  /\ Len(res.days) = 4 + 29
  /\ res.days[4].kind = "empty" /\ res.days[5].kind = "day"

\* C6: building the grid or resolving a day click with a month outside 1..12
\* or a day outside the month fails with InvalidDate, and the input is never
\* silently turned into another, valid date.
C6_InvalidDateRaised ==
  (res.fn = "calendar" /\ ~ValidDateArg) => res.error = "InvalidDate"

\* the grid renderDatePicker builds from form.date
Grid == LET p == DateParts(form.date) IN Days(p.yyyy, p.mm, p.dd)

SelectedCellsOf(days) == { k \in 1..Len(days) : days[k].isSelected }

\* C5: in every state reached through day clicks, month navigation and Today,
\* the grid built from form.date marks exactly one cell as selected: the day
\* cell of the selected day s, at index firstWeekdayOfMonth + s - 1 (counted
\* from 0; cell number firstWeekdayOfMonth + s counted from 1).
C5_OneSelectedCell ==
  LET s == DayOf(form.date)
      ym == YearMonthOf(form.date)
      k == FirstWeekdayRef(ym.year, ym.month) + s
      days == Grid
  IN  /\ SelectedCellsOf(days) = {k}
      /\ days[k].kind = "day"
      /\ days[k].day = s

C5_Witness ==
  /\ last.op = "day" /\ last.day = 29
  /\ form.date = << "2", "9", "/", "0", "2", "/", "2", "0", "2", "4" >>
  /\ SelectedCellsOf(Grid) = {4 + 29}

\* C7: every record passed to addTransaction has a numeric amount greater than
\* 0 and a category that is not blank, and a submit of a form with an empty or
\* non-positive amount or a blank category is refused: it starts no call of
\* addTransaction and leaves the matching messages in the errors map.
C7_ValidationGatesDispatch ==
  /\ last.op = "submitResume" =>
       \A record \in { last.addTransaction[i] : i \in 1..Len(last.addTransaction) } :
         /\ ~record.amount.nan
         /\ ~NotPositive(record.amount)
         /\ Trim(record.category) # << >>
  /\ (last.op = "submit" /\ (last.form.amount = << >>
                               \/ NotPositive(ParseFloat(last.form.amount)))) =>
       /\ ~last.accepted /\ last.addTransaction = << >>
       /\ HasError(errors, "amount") /\ errors["amount"] = AmountMessage
  /\ (last.op = "submit" /\ Trim(last.form.category) = << >>) =>
       /\ ~last.accepted /\ last.addTransaction = << >>
       /\ HasError(errors, "category") /\ errors["category"] = CategoryMessage

\* the values of a list
Range(list) == { list[i] : i \in 1..Len(list) }

\* C8: for every list of transactions, the category list of the dropdown
\* contains every default category and every category of a transaction,
\* nothing else, no value twice, and is sorted (as Array.prototype.sort sorts
\* strings: by UTF-16 code units).
C8_CategoriesSortedUnion ==
  res.fn = "categories" =>
    LET list == res.categories
    IN  /\ Range(list) = Range(defaultCategories) \cup Range(CategoriesOf(transactions))
        /\ \A i, j \in 1..Len(list) : i # j => list[i] # list[j]
        /\ \A i, j \in 1..Len(list) : i < j => StringLess(list[i], list[j])

C8_Witness ==
  /\ res.fn = "categories"
  /\ transactions = << [category |-> << "a" >>], [category |-> << "G", "a", "s" >>],
                       [category |-> << "a" >>] >>
  /\ Len(res.categories) = 12
  /\ res.categories[4] = << "G", "a", "s" >>
  /\ res.categories[12] = << "a" >>

C10_OneAtATime ==
  /\ Len(pending) <= 1
  /\ isSubmitting <=> pending # << >>

C10_AtSubmit ==
  (last.op = "submit" /\ last.accepted) => (isSubmitting /\ pending = << last.form >>)

C10_AtDispatch ==
  last.op = "submitResume" =>
    /\ last.addTransaction = << RecordOf(last.captured) >>
    /\ last.toast = << "success" >>
    /\ form = DefaultForm
    /\ form.amount = << >> /\ form.category = << >> /\ form.note = << >>
    /\ form.type = "Expense"
    /\ ~isSubmitting
    /\ ~isVisible
    /\ closeTimers > 0

\* a step leaves the waiting submits alone, or adds the form just accepted, or
\* is the dispatch of the oldest one
C10_Step ==
  \/ pending' = pending /\ last'.op # "submitResume"
  \/ /\ pending' = Append(pending, form)
     /\ DOMAIN NewErrors(form) = {}
     /\ last'.op = "submit"
  \/ /\ pending # << >>
     /\ pending' = Tail(pending)
     /\ last'.op = "submitResume"
     /\ last'.captured = Head(pending)

C10_SubmitDispatched ==
  /\ [](C10_OneAtATime /\ C10_AtSubmit /\ C10_AtDispatch)
  /\ [][C10_Step]_vars
  /\ (pending # << >>) ~> (pending = << >>)

C10_Witness ==
  /\ last.op = "submitResume"
  /\ last.captured.note = << "n" >>
  /\ last.captured.type = "Income"
  /\ last.captured.category = << "a" >>
  /\ ~showModal

\* the digits of a text, in their order
RECURSIVE DigitsIn(_)
DigitsIn(s) ==
  IF s = << >> THEN << >>
  ELSE IF IsDigit(s[1]) THEN << s[1] >> \o DigitsIn(Tail(s))
  ELSE DigitsIn(Tail(s))

\* C11: for every text typed or pasted, the string handleAmountChange stores in
\* form.amount contains only the digits 0-9 and dots, at most one dot, does not
\* begin with a dot, and keeps the digits of the text in their order.
C11_AmountWellFormed ==
  res.fn = "amount" =>
    LET s == form.amount
    IN  /\ \A i \in 1..Len(s) : IsDigit(s[i]) \/ s[i] = "."
        /\ Cardinality({ i \in 1..Len(s) : s[i] = "." }) <= 1
        /\ (s # << >> => s[1] # ".")
        /\ DigitsIn(s) = DigitsIn(arg.value)

====
